---- MODULE Spec2Model ----
(***************************************************************************)
(* TaxonSelectionController (naturtag/controllers/                         *)
(* taxon_selection_controller.py): the history, starred and frequently     *)
(* viewed taxon lists.  Each list is kept three ways: a list of ids, an    *)
(* id -> list item map, and the children of a list widget.                 *)
(*                                                                         *)
(* A widget's children are modelled as the sequence kivy keeps: python     *)
(* index 0 is element 1 here.  A list widget draws its children from the   *)
(* last one (top of the list) to the first one (bottom), so                *)
(* add_widget(item, len(children)) puts item at the top and                *)
(* add_widget(item) (index 0) puts it at the bottom.                       *)
(***************************************************************************)
EXTENDS Integers, Sequences, FiniteSets, TLC

VARIABLES taxon_history_ids, taxon_history_map, taxon_history_list,
          starred_taxa_ids, starred_taxa_map, starred_taxa_list,
          frequent_taxa_ids, frequent_taxa_list,
          call,
          tessprofiles, tessprofiles_file, layout, profile_call

vars == <<taxon_history_ids, taxon_history_map, taxon_history_list,
          starred_taxa_ids, starred_taxa_map, starred_taxa_list,
          frequent_taxa_ids, frequent_taxa_list, call,
          tessprofiles, tessprofiles_file, layout, profile_call>>

(* TessprofilesController (tesseractXplore/controllers/                    *)
(* tessprofiles_controller.py): the application's profiles, the profile    *)
(* file, the list shown and the call just made                             *)
profile_vars == <<tessprofiles, tessprofiles_file, layout, profile_call>>

(* The profiles screen is not on: no profiles, nothing shown *)
NoProfiles ==
    /\ tessprofiles = <<>>
    /\ tessprofiles_file = <<>>
    /\ layout = <<>>
    /\ profile_call = [op |-> "none", profile |-> "", raised |-> "none"]

history_vars == <<taxon_history_ids, taxon_history_map, taxon_history_list>>
starred_vars == <<starred_taxa_ids, starred_taxa_map, starred_taxa_list>>
frequent_vars == <<frequent_taxa_ids, frequent_taxa_list>>

(* Bounds of the model *)
MaxStored == 2
MaxHistory == 3
MaxStarred == 2

TaxonIds == {1, 2, 3}

(***************************************************************************)
(* Sequences                                                               *)
(***************************************************************************)
Range(s) == {s[i] : i \in DOMAIN s}

NoDuplicates(s) == \A i, j \in DOMAIN s : s[i] = s[j] => i = j

Reverse(s) == [i \in 1..Len(s) |-> s[Len(s) + 1 - i]]

SeqsUpTo(S, n) == UNION {[1..k -> S] : k \in 0..n}

FirstIndex(s, x) == CHOOSE i \in DOMAIN s : s[i] = x /\ \A j \in 1..(i - 1) : s[j] # x

(* list.remove(x) for an x that is in the list: the first occurrence goes *)
ListRemove(s, x) ==
    LET i == FirstIndex(s, x)
    IN  SubSeq(s, 1, i - 1) \o SubSeq(s, i + 1, Len(s))

SetMax(S) == CHOOSE m \in S : \A x \in S : x <= m

(***************************************************************************)
(* Widgets                                                                 *)
(***************************************************************************)
(* A new list item.  n tells it from the other live items of the same      *)
(* taxon in the same list: a python object is distinct from every object   *)
(* still referenced.                                                       *)
TaxonListItem(taxon_id, parent_tab, children) ==
    [taxon_id |-> taxon_id, parent_tab |-> parent_tab,
     n |-> 1 + SetMax({0} \cup {it.n : it \in {c \in Range(children) : c.taxon_id = taxon_id}})]

(* children.insert(index, widget) *)
add_widget(children, item, index) ==
    SubSeq(children, 1, index) \o <<item>> \o SubSeq(children, index + 1, Len(children))

(* children.remove(widget) when widget is a child, nothing otherwise *)
remove_widget(children, item) ==
    IF item \in Range(children) THEN ListRemove(children, item) ELSE children

(* What a list shows, top to bottom *)
Displayed(children) == Reverse(children)

DisplayedIds(children) == [i \in 1..Len(children) |-> Displayed(children)[i].taxon_id]

(***************************************************************************)
(* frequent_taxa_ids: a python dict, a sequence of key/value pairs in      *)
(* insertion order                                                         *)
(***************************************************************************)
DictKeys(d) == {d[i].k : i \in DOMAIN d}

DictKeyList(d) == [i \in 1..Len(d) |-> d[i].k]

DictGet(d, key, default) ==
    IF key \in DictKeys(d) THEN d[CHOOSE i \in DOMAIN d : d[i].k = key].v ELSE default

DictSetDefault(d, key, default) ==
    IF key \in DictKeys(d) THEN d ELSE Append(d, [k |-> key, v |-> default])

DictAdd(d, key, delta) ==
    [i \in 1..Len(d) |-> IF d[i].k = key THEN [k |-> key, v |-> d[i].v + delta] ELSE d[i]]

(***************************************************************************)
(* Frequently viewed                                                       *)
(***************************************************************************)
num_views(frequent, taxon_id) == DictGet(frequent, taxon_id, 0)

get_frequent_taxon_idx(frequent, list_item) ==
    num_views(frequent, list_item.taxon_id) * (-1)

(* Stable sort of the shown list by the sort key, ascending *)
RECURSIVE SortedInsert(_, _, _)
SortedInsert(shown, item, frequent) ==
    IF shown = <<>> THEN <<item>>
    ELSE IF get_frequent_taxon_idx(frequent, item) < get_frequent_taxon_idx(frequent, Head(shown))
         THEN <<item>> \o shown
         ELSE <<Head(shown)>> \o SortedInsert(Tail(shown), item, frequent)

RECURSIVE SortShown(_, _)
SortShown(shown, frequent) ==
    IF shown = <<>> THEN <<>>
    ELSE SortedInsert(SortShown(SubSeq(shown, 1, Len(shown) - 1), frequent),
                      shown[Len(shown)], frequent)

sort(children, frequent) == Reverse(SortShown(Displayed(children), frequent))

(* Mutants of add_frequent_taxon: the count set rather than defaulted; a   *)
(* new id entered at 1 rather than 0                                       *)
frequent_counted_reset(frequent, taxon_id) ==
    IF taxon_id \in DictKeys(frequent)
    THEN [i \in 1..Len(frequent) |->
             IF frequent[i].k = taxon_id THEN [k |-> taxon_id, v |-> 1] ELSE frequent[i]]
    ELSE Append(frequent, [k |-> taxon_id, v |-> 1])

frequent_counted_from_one(frequent, taxon_id) ==
    DictAdd(DictSetDefault(frequent, taxon_id, 1), taxon_id, 1)

frequent_counted(frequent, taxon_id) ==
    DictAdd(DictSetDefault(frequent, taxon_id, 0), taxon_id, 1)

add_frequent_taxon_reset(taxon_id) ==
    /\ frequent_taxa_ids' = frequent_counted_reset(frequent_taxa_ids, taxon_id)
    /\ frequent_taxa_list' = sort(frequent_taxa_list, frequent_taxa_ids')

add_frequent_taxon_from_one(taxon_id) ==
    /\ frequent_taxa_ids' = frequent_counted_from_one(frequent_taxa_ids, taxon_id)
    /\ frequent_taxa_list' = sort(frequent_taxa_list, frequent_taxa_ids')

add_frequent_taxon(taxon_id) ==
    /\ frequent_taxa_ids' = frequent_counted(frequent_taxa_ids, taxon_id)
    /\ frequent_taxa_list' = sort(frequent_taxa_list, frequent_taxa_ids')

RECURSIVE load_frequent(_)
load_frequent(keys) ==
    IF keys = <<>> THEN <<>>
    ELSE add_widget(load_frequent(SubSeq(keys, 1, Len(keys) - 1)),
                    TaxonListItem(keys[Len(keys)], "frequent", <<>>), 0)

(* The counts an earlier session leaves for the views it logged *)
RECURSIVE CountViews(_)
CountViews(log) ==
    IF log = <<>> THEN <<>>
    ELSE frequent_counted(CountViews(SubSeq(log, 1, Len(log) - 1)), log[Len(log)])

(***************************************************************************)
(* The call just made: the operation, its argument, what it raised and     *)
(* returned, and for update_history whether the call before it was         *)
(* update_history of the same taxon                                        *)
(***************************************************************************)
Called(op, taxon_id, raised, returned) ==
    [op |-> op, taxon_id |-> taxon_id, raised |-> raised, returned |-> returned,
     again |-> (op = "update_history" /\ call.op = op /\ call.taxon_id = taxon_id)]

(***************************************************************************)
(* History                                                                 *)
(***************************************************************************)
(* Mutant of load_history: no look in taxon_history_map before an item is added *)
RECURSIVE load_history_all(_)
load_history_all(reversed_ids) ==
    IF reversed_ids = <<>> THEN [map |-> <<>>, list |-> <<>>]
    ELSE LET s == load_history_all(SubSeq(reversed_ids, 1, Len(reversed_ids) - 1))
             taxon_id == reversed_ids[Len(reversed_ids)]
             item == TaxonListItem(taxon_id, "history", s.list)
         IN  [map |-> (taxon_id :> item) @@ s.map, list |-> add_widget(s.list, item, 0)]

(* load_history: the state after the ids (already reversed) are gone through *)
RECURSIVE load_history(_)
load_history(reversed_ids) ==
    IF reversed_ids = <<>> THEN [map |-> <<>>, list |-> <<>>]
    ELSE LET s == load_history(SubSeq(reversed_ids, 1, Len(reversed_ids) - 1))
             taxon_id == reversed_ids[Len(reversed_ids)]
             item == TaxonListItem(taxon_id, "history", s.list)
         IN  IF taxon_id \notin DOMAIN s.map
             THEN [map |-> (taxon_id :> item) @@ s.map, list |-> add_widget(s.list, item, 0)]
             ELSE s

(* Mutant of history_moved_to_top: a new item for every view, the old one left *)
history_not_moved(map, children, taxon_id) ==
    LET item == TaxonListItem(taxon_id, "history", children)
    IN  [map |-> (taxon_id :> item) @@ map, list |-> add_widget(children, item, Len(children))]

(* lines 65-72: the item moved, or entered, at the top of the history list *)
history_moved_to_top(map, children, taxon_id) ==
    IF taxon_id \in DOMAIN map
    THEN LET item == map[taxon_id]
             removed == remove_widget(children, item)
         IN  [map |-> map, list |-> add_widget(removed, item, Len(removed))]
    ELSE LET item == TaxonListItem(taxon_id, "history", children)
         IN  [map |-> (taxon_id :> item) @@ map, list |-> add_widget(children, item, Len(children))]

update_history(taxon_id) ==
    /\ Len(taxon_history_ids) < MaxHistory
    /\ taxon_history_ids' = Append(taxon_history_ids, taxon_id)
    /\ LET s == history_moved_to_top(taxon_history_map, taxon_history_list, taxon_id)
       IN  /\ taxon_history_map' = s.map
           /\ taxon_history_list' = s.list
    /\ add_frequent_taxon(taxon_id)
    /\ call' = Called("update_history", taxon_id, "none", <<>>)
    /\ UNCHANGED <<starred_vars, profile_vars>>

(***************************************************************************)
(* Starred                                                                 *)
(***************************************************************************)
(* add_star on the state s = [ids, map, list] of the starred collection *)
starred_added(s, taxon_id) ==
    LET item == TaxonListItem(taxon_id, "starred", s.list)
    IN  [ids |-> IF taxon_id \notin Range(s.ids) THEN Append(s.ids, taxon_id) ELSE s.ids,
         map |-> (taxon_id :> item) @@ s.map,
         list |-> add_widget(s.list, item, Len(s.list))]

RECURSIVE load_starred(_, _)
load_starred(s, reversed_ids) ==
    IF reversed_ids = <<>> THEN s
    ELSE load_starred(starred_added(s, Head(reversed_ids)), Tail(reversed_ids))

add_star(taxon_id) ==
    /\ Len(starred_taxa_list) < MaxStarred
    /\ LET s == starred_added([ids |-> starred_taxa_ids, map |-> starred_taxa_map,
                               list |-> starred_taxa_list], taxon_id)
       IN  /\ starred_taxa_ids' = s.ids
           /\ starred_taxa_map' = s.map
           /\ starred_taxa_list' = s.list
    /\ call' = Called("add_star", taxon_id, "none", <<>>)
    /\ UNCHANGED <<history_vars, frequent_vars, profile_vars>>

(* dict.pop(key): KeyError for a key that is not there *)
MapWithout(map, key) == [x \in (DOMAIN map) \ {key} |-> map[x]]

(* Mutant of remove_star: the id taken out of the history ids, not the starred ids *)
remove_star_from_history(taxon_id) ==
    IF taxon_id \notin DOMAIN starred_taxa_map
    THEN /\ call' = Called("remove_star", taxon_id, "KeyError", <<>>)
         /\ UNCHANGED <<history_vars, starred_vars, frequent_vars, profile_vars>>
    ELSE LET item == starred_taxa_map[taxon_id]
         IN  /\ starred_taxa_map' = MapWithout(starred_taxa_map, taxon_id)
             /\ IF taxon_id \notin Range(taxon_history_ids)
                THEN /\ call' = Called("remove_star", taxon_id, "ValueError", <<>>)
                     /\ UNCHANGED <<taxon_history_ids, starred_taxa_list>>
                ELSE /\ taxon_history_ids' = ListRemove(taxon_history_ids, taxon_id)
                     /\ starred_taxa_list' = remove_widget(starred_taxa_list, item)
                     /\ call' = Called("remove_star", taxon_id, "none", <<>>)
             /\ UNCHANGED <<starred_taxa_ids, taxon_history_map, taxon_history_list,
                            frequent_vars, profile_vars>>

remove_star(taxon_id) ==
    IF taxon_id \notin DOMAIN starred_taxa_map
    THEN /\ call' = Called("remove_star", taxon_id, "KeyError", <<>>)
         /\ UNCHANGED <<history_vars, starred_vars, frequent_vars, profile_vars>>
    ELSE LET item == starred_taxa_map[taxon_id]
         IN  /\ starred_taxa_map' = MapWithout(starred_taxa_map, taxon_id)
             /\ IF taxon_id \notin Range(starred_taxa_ids)
                THEN /\ call' = Called("remove_star", taxon_id, "ValueError", <<>>)
                     /\ UNCHANGED <<starred_taxa_ids, starred_taxa_list>>
                ELSE /\ starred_taxa_ids' = ListRemove(starred_taxa_ids, taxon_id)
                     /\ starred_taxa_list' = remove_widget(starred_taxa_list, item)
                     /\ call' = Called("remove_star", taxon_id, "none", <<>>)
             /\ UNCHANGED <<history_vars, frequent_vars, profile_vars>>

is_starred(taxon_id) ==
    /\ call' = Called("is_starred", taxon_id, "none", <<taxon_id \in DOMAIN starred_taxa_map>>)
    /\ UNCHANGED <<history_vars, starred_vars, frequent_vars, profile_vars>>

(* the sort key of a list item of the frequent tab, asked for on its own *)
sort_key(taxon_id) ==
    /\ call' = Called("get_frequent_taxon_idx", taxon_id, "none",
                      <<get_frequent_taxon_idx(frequent_taxa_ids,
                                               TaxonListItem(taxon_id, "frequent", <<>>))>>)
    /\ UNCHANGED <<history_vars, starred_vars, frequent_vars, profile_vars>>

(***************************************************************************)
(* Startup: init_stored_taxa on what an earlier session stored             *)
(***************************************************************************)
StoredHistories == SeqsUpTo(TaxonIds, MaxStored)

StoredStarred == {s \in SeqsUpTo(TaxonIds, MaxStored) : NoDuplicates(s)}

init_stored_taxa(history_ids, starred_ids, frequent) ==
    LET h == load_history(Reverse(history_ids))
        s == load_starred([ids |-> starred_ids, map |-> <<>>, list |-> <<>>],
                          Reverse(starred_ids))
    IN  /\ taxon_history_ids = history_ids
        /\ taxon_history_map = h.map
        /\ taxon_history_list = h.list
        /\ starred_taxa_ids = s.ids
        /\ starred_taxa_map = s.map
        /\ starred_taxa_list = s.list
        /\ frequent_taxa_ids = frequent
        /\ frequent_taxa_list = load_frequent(DictKeyList(frequent))

Init ==
    /\ \E history_ids \in StoredHistories, starred_ids \in StoredStarred :
          init_stored_taxa(history_ids, starred_ids, CountViews(history_ids))
    /\ call = [op |-> "init_stored_taxa", taxon_id |-> 0, raised |-> "none", returned |-> <<>>,
               again |-> FALSE]
    /\ NoProfiles

Next ==
    \E taxon_id \in TaxonIds :
        \/ update_history(taxon_id)
        \/ add_star(taxon_id)
        \/ remove_star(taxon_id)
        \/ is_starred(taxon_id)
        \/ sort_key(taxon_id)

Spec == Init /\ [][Next]_vars

(***************************************************************************)
(* A session after another: the first one starts on an empty store; a new  *)
(* controller's post_init loads the ids and counts the controller before   *)
(* it held, which the application stored as they were.                     *)
(***************************************************************************)
post_init ==
    LET h == load_history(Reverse(taxon_history_ids))
        s == load_starred([ids |-> starred_taxa_ids, map |-> <<>>, list |-> <<>>],
                          Reverse(starred_taxa_ids))
    IN  /\ taxon_history_ids' = taxon_history_ids
        /\ taxon_history_map' = h.map
        /\ taxon_history_list' = h.list
        /\ starred_taxa_ids' = s.ids
        /\ starred_taxa_map' = s.map
        /\ starred_taxa_list' = s.list
        /\ frequent_taxa_ids' = frequent_taxa_ids
        /\ frequent_taxa_list' = load_frequent(DictKeyList(frequent_taxa_ids))
        /\ call' = [op |-> "init_stored_taxa", taxon_id |-> 0, raised |-> "none",
                    returned |-> <<>>, again |-> FALSE]
        /\ UNCHANGED profile_vars

InitFresh ==
    /\ init_stored_taxa(<<>>, <<>>, <<>>)
    /\ call = [op |-> "init_stored_taxa", taxon_id |-> 0, raised |-> "none", returned |-> <<>>,
               again |-> FALSE]
    /\ NoProfiles

NextReload ==
    \/ Next
    \/ post_init

SpecReload == InitFresh /\ [][NextReload]_vars

(***************************************************************************)
(* Tesseract profiles.  get_app().tessprofiles is a dict from profile name *)
(* to the profile's parameters, a dict of its own: here a sequence of      *)
(* name/parameters pairs in insertion order, the parameters a record with  *)
(* the settings and, when the key is there, default.                       *)
(***************************************************************************)
ProfileNames == {"eng", "deu", "frk"}

PsmValues == {3, 6}

ProfileParams ==
    [psm : PsmValues] \cup [psm : PsmValues, default : BOOLEAN]

IsDefault(profileparam) ==
    "default" \in DOMAIN profileparam /\ profileparam.default = TRUE

(* profileparam['default'] = value *)
WithDefault(profileparam, value) ==
    [key \in DOMAIN profileparam \cup {"default"} |->
        IF key = "default" THEN value ELSE profileparam[key]]

(* del d[key] for a key that is there *)
DictDel(d, key) == SelectSeq(d, LAMBDA pair : pair.k # key)

(* the file after write_tessprofiles(profiles) *)
write_tessprofiles(profiles) == profiles

(* add_profile: the list item of a profile *)
add_profile(profile, profileparam) ==
    [text |-> profile, profileparam |-> profileparam,
     icon |-> IF "default" \in DOMAIN profileparam /\ profileparam.default = FALSE
              THEN "star-outline" ELSE "star"]

(* set_profiles without a search: the layout is cleared and an item for    *)
(* every profile is added at index 0 of its children                       *)
set_profiles(profiles) ==
    Reverse([i \in 1..Len(profiles) |-> add_profile(profiles[i].k, profiles[i].v)])

(* Mutant of defaults_set: the other profiles are left as they are *)
defaults_set_selected_only(profiles, sel_profile) ==
    [i \in 1..Len(profiles) |->
        IF profiles[i].k = sel_profile
        THEN [k |-> profiles[i].k, v |-> WithDefault(profiles[i].v, TRUE)]
        ELSE profiles[i]]

(* lines 66-70 *)
defaults_set(profiles, sel_profile) ==
    [i \in 1..Len(profiles) |->
        [k |-> profiles[i].k, v |-> WithDefault(profiles[i].v, profiles[i].k = sel_profile)]]

set_to_default(sel_profile) ==
    /\ tessprofiles' = defaults_set(tessprofiles, sel_profile)
    /\ tessprofiles_file' = write_tessprofiles(tessprofiles')
    /\ layout' = set_profiles(tessprofiles')
    /\ profile_call' = [op |-> "set_to_default", profile |-> sel_profile, raised |-> "none"]
    /\ UNCHANGED <<history_vars, starred_vars, frequent_vars, call>>

unset_default(sel_profile) ==
    /\ IF sel_profile \notin DictKeys(tessprofiles)
       THEN /\ profile_call' = [op |-> "unset_default", profile |-> sel_profile,
                                raised |-> "KeyError"]
            /\ UNCHANGED <<tessprofiles, tessprofiles_file, layout>>
       ELSE /\ tessprofiles' =
                  [i \in 1..Len(tessprofiles) |->
                      IF tessprofiles[i].k = sel_profile
                      THEN [k |-> sel_profile, v |-> WithDefault(tessprofiles[i].v, FALSE)]
                      ELSE tessprofiles[i]]
            /\ tessprofiles_file' = write_tessprofiles(tessprofiles')
            /\ layout' = set_profiles(tessprofiles')
            /\ profile_call' = [op |-> "unset_default", profile |-> sel_profile,
                                raised |-> "none"]
    /\ UNCHANGED <<history_vars, starred_vars, frequent_vars, call>>

(* Mutant of remove_profile: the file is not written *)
remove_profile_unwritten(profile) ==
    /\ IF profile \notin DictKeys(tessprofiles)
       THEN /\ profile_call' = [op |-> "remove_profile", profile |-> profile,
                                raised |-> "KeyError"]
            /\ UNCHANGED <<tessprofiles, tessprofiles_file, layout>>
       ELSE /\ tessprofiles' = DictDel(tessprofiles, profile)
            /\ tessprofiles_file' = tessprofiles_file
            /\ layout' = set_profiles(tessprofiles')
            /\ profile_call' = [op |-> "remove_profile", profile |-> profile,
                                raised |-> "none"]
    /\ UNCHANGED <<history_vars, starred_vars, frequent_vars, call>>

remove_profile(profile) ==
    /\ IF profile \notin DictKeys(tessprofiles)
       THEN /\ profile_call' = [op |-> "remove_profile", profile |-> profile,
                                raised |-> "KeyError"]
            /\ UNCHANGED <<tessprofiles, tessprofiles_file, layout>>
       ELSE /\ tessprofiles' = DictDel(tessprofiles, profile)
            /\ tessprofiles_file' = write_tessprofiles(tessprofiles')
            /\ layout' = set_profiles(tessprofiles')
            /\ profile_call' = [op |-> "remove_profile", profile |-> profile,
                                raised |-> "none"]
    /\ UNCHANGED <<history_vars, starred_vars, frequent_vars, call>>

(* The profile stores the screen opens on: any profiles, at most one of    *)
(* them the default; the application read them from the profile file       *)
AtMostOneDefault(profiles) ==
    \A i, j \in DOMAIN profiles :
        (IsDefault(profiles[i].v) /\ IsDefault(profiles[j].v)) => i = j

StoredProfiles ==
    {d \in SeqsUpTo([k : ProfileNames, v : ProfileParams], Cardinality(ProfileNames)) :
        /\ NoDuplicates(DictKeyList(d))
        /\ AtMostOneDefault(d)}

InitProfiles ==
    /\ init_stored_taxa(<<>>, <<>>, <<>>)
    /\ call = [op |-> "init_stored_taxa", taxon_id |-> 0, raised |-> "none", returned |-> <<>>,
               again |-> FALSE]
    /\ tessprofiles \in StoredProfiles
    /\ tessprofiles_file = tessprofiles
    /\ layout = set_profiles(tessprofiles)
    /\ profile_call = [op |-> "set_profiles", profile |-> "", raised |-> "none"]

NextProfiles ==
    \E profile \in ProfileNames :
        \/ set_to_default(profile)
        \/ unset_default(profile)
        \/ remove_profile(profile)

SpecProfiles == InitProfiles /\ [][NextProfiles]_vars

(***************************************************************************)
(* The views of the lists                                                  *)
(***************************************************************************)
orderedHistory == DisplayedIds(taxon_history_list)

orderedStarred == DisplayedIds(starred_taxa_list)

orderedFrequent == DisplayedIds(frequent_taxa_list)

frequencyRank(taxon_id) == num_views(frequent_taxa_ids, taxon_id)

isStarred(taxon_id) == taxon_id \in DOMAIN starred_taxa_map

Without(s, x) == SelectSeq(s, LAMBDA y : y # x)

ItemsOf(children, taxon_id) == {i \in DOMAIN children : children[i].taxon_id = taxon_id}

(* The step is a call of op on taxon_id *)
IsCall(op, taxon_id) == call'.op = op /\ call'.taxon_id = taxon_id

(***************************************************************************)
(* C1: after the stored history is loaded and after any recordView calls,  *)
(* the displayed history holds no id twice, and the most recently viewed   *)
(* id (the last of the id log) is first in it.                             *)
(***************************************************************************)
C1_HistoryDedupMostRecentFirst ==
    /\ NoDuplicates(orderedHistory)
    /\ taxon_history_ids # <<>> =>
          /\ orderedHistory # <<>>
          /\ orderedHistory[1] = taxon_history_ids[Len(taxon_history_ids)]
    /\ call.op = "update_history" => orderedHistory[1] = call.taxon_id

(* a taxon viewed before is viewed again while another one is on top *)
C1_Witness ==
    /\ call.op = "update_history"
    /\ Len(orderedHistory) >= 2
    /\ \E i \in 1..(Len(taxon_history_ids) - 2) :
          /\ taxon_history_ids[i] = call.taxon_id
          /\ taxon_history_ids[Len(taxon_history_ids) - 1] # call.taxon_id

(***************************************************************************)
(* C2: a taxon id is at most once in the starred collection, in the        *)
(* starred id list and in the displayed starred entries; star(X) on a      *)
(* starred X leaves the size unchanged.                                    *)
(***************************************************************************)
C2_StarredAtMostOnce ==
    /\ NoDuplicates(starred_taxa_ids)
    /\ NoDuplicates(orderedStarred)

(***************************************************************************)
(* C3: unstar(Y) for an id Y that is not starred does not raise and leaves *)
(* the starred ids, map and list, the history and the counts unchanged.    *)
(***************************************************************************)
C3_UnstarAbsentIsTotal ==
    [][\A y \in TaxonIds :
          (IsCall("remove_star", y) /\ ~isStarred(y)) =>
              /\ call'.raised = "none"
              /\ UNCHANGED <<history_vars, starred_vars, frequent_vars>>]_vars

(***************************************************************************)
(* C4: the displayed frequent list holds every id with a visit count of    *)
(* at least 1, ids first viewed after startup included, each exactly once. *)
(***************************************************************************)
C4_FrequentHoldsEveryViewed ==
    \A taxon_id \in TaxonIds :
        frequencyRank(taxon_id) >= 1 =>
            Cardinality(ItemsOf(frequent_taxa_list, taxon_id)) = 1

(***************************************************************************)
(* C5: after every recordView the frequent list is the viewed ids ordered  *)
(* by visit count, highest first, ids of equal count in first-seen order   *)
(* (views A,B,A,C,B,B from an empty state show B, A, C).                   *)
(***************************************************************************)
FirstSeen(taxon_id) == FirstIndex(DictKeyList(frequent_taxa_ids), taxon_id)

RankedBefore(a, b) ==
    \/ frequencyRank(a) > frequencyRank(b)
    \/ frequencyRank(a) = frequencyRank(b) /\ FirstSeen(a) < FirstSeen(b)

C5_FrequentByViewsDescending ==
    call.op = "update_history" =>
        /\ Range(orderedFrequent) = DictKeys(frequent_taxa_ids)
        /\ \A i, j \in DOMAIN orderedFrequent :
              i < j => RankedBefore(orderedFrequent[i], orderedFrequent[j])

(***************************************************************************)
(* C6: every recordView(X) raises the count of X by exactly 1 (from 0 for  *)
(* an X never viewed) and changes no other count; a recordView(X) directly *)
(* after a recordView(X) adds one id to the history log and no second      *)
(* entry for X to the displayed history.                                   *)
(***************************************************************************)
C6_RecordViewCounts ==
    [][\A x \in TaxonIds :
          IsCall("update_history", x) =>
              /\ frequencyRank(x)' = frequencyRank(x) + 1
              /\ \A y \in TaxonIds \ {x} : frequencyRank(y)' = frequencyRank(y)
              /\ Len(taxon_history_ids') = Len(taxon_history_ids) + 1
              /\ (call.op = "update_history" /\ call.taxon_id = x) =>
                    /\ orderedHistory' = orderedHistory
                    /\ Cardinality(ItemsOf(taxon_history_list', x)) = 1]_vars

(* X viewed twice in direct succession, counted twice *)
C6_Witness ==
    /\ call.op = "update_history"
    /\ call.again
    /\ frequencyRank(call.taxon_id) >= 2
    /\ Len(orderedHistory) >= 2

(***************************************************************************)
(* C7: after a successful unstar(X), whatever star and unstar calls came   *)
(* before, isStarred(X) is false and orderedStarred holds no entry for X.  *)
(***************************************************************************)
C7_UnstarRemovesEntry ==
    (call.op = "remove_star" /\ call.raised = "none") =>
        /\ ~isStarred(call.taxon_id)
        /\ call.taxon_id \notin Range(orderedStarred)

(***************************************************************************)
(* C8: orderedStarred is in most-recently-starred-first order: star(X) of  *)
(* an X not starred puts X first, star(X) of a starred X changes nothing,  *)
(* and a successful unstar(X) takes X out and keeps the order of the rest. *)
(***************************************************************************)
C8_StarredMostRecentFirst ==
    [][\A x \in TaxonIds :
          /\ (IsCall("add_star", x) /\ ~isStarred(x)) =>
                orderedStarred' = <<x>> \o orderedStarred
          /\ (IsCall("add_star", x) /\ isStarred(x)) =>
                orderedStarred' = orderedStarred
          /\ (IsCall("remove_star", x) /\ isStarred(x)) =>
                orderedStarred' = Without(orderedStarred, x)]_vars

(***************************************************************************)
(* C9: no operation after startup lowers a visit count or takes an id out  *)
(* of the frequency counter.                                               *)
(***************************************************************************)
C9_CountsNeverDecrease ==
    [][\A taxon_id \in DictKeys(frequent_taxa_ids) :
          /\ taxon_id \in DictKeys(frequent_taxa_ids')
          /\ frequencyRank(taxon_id)' >= frequencyRank(taxon_id)]_vars

(* an id counted twice is viewed once more *)
C9_Witness ==
    /\ call.op = "update_history"
    /\ frequencyRank(call.taxon_id) >= 3

(***************************************************************************)
(* C10: taxon_history_map has exactly the distinct ids of the history id   *)
(* log as keys, the displayed history shows exactly these ids, and the     *)
(* map's entry for an id is the one item shown for it.                     *)
(***************************************************************************)
C10_HistoryMapInSync ==
    /\ DOMAIN taxon_history_map = Range(taxon_history_ids)
    /\ Range(orderedHistory) = Range(taxon_history_ids)
    /\ \A taxon_id \in DOMAIN taxon_history_map :
          /\ taxon_history_map[taxon_id].taxon_id = taxon_id
          /\ \A i \in DOMAIN taxon_history_list :
                taxon_history_list[i].taxon_id = taxon_id
                    <=> taxon_history_list[i] = taxon_history_map[taxon_id]
          /\ Cardinality(ItemsOf(taxon_history_list, taxon_id)) = 1

(* a stored log that names an id twice is loaded, and a view follows *)
C10_Witness ==
    /\ call.op = "update_history"
    /\ Len(taxon_history_ids) = MaxStored + 1
    /\ taxon_history_ids[1] = taxon_history_ids[2]
    /\ Cardinality(DOMAIN taxon_history_map) = 2

(***************************************************************************)
(* C13: the three representations of the starred collection agree: X is a  *)
(* key of starred_taxa_map if and only if X is in starred_taxa_ids, if and *)
(* only if an entry for X is shown in the starred list.                    *)
(***************************************************************************)
C13_StarredRepresentationsAgree ==
    \A x \in TaxonIds :
        /\ isStarred(x) <=> x \in Range(starred_taxa_ids)
        /\ isStarred(x) <=> x \in Range(orderedStarred)

(***************************************************************************)
(* C15: update_history leaves the starred ids, map and list unchanged;     *)
(* add_star and remove_star leave the history ids, map and list and the    *)
(* frequency counts and list unchanged; is_starred and the sort-key query  *)
(* change none of the collections.                                         *)
(***************************************************************************)
C15_CollectionsIndependent ==
    [][\A x \in TaxonIds :
          /\ IsCall("update_history", x) => UNCHANGED starred_vars
          /\ (IsCall("add_star", x) \/ IsCall("remove_star", x)) =>
                UNCHANGED <<history_vars, frequent_vars>>
          /\ (IsCall("is_starred", x) \/ IsCall("get_frequent_taxon_idx", x)) =>
                UNCHANGED <<history_vars, starred_vars, frequent_vars>>]_vars

(* a starred taxon that is also in the history and counted is unstarred *)
C15_Witness ==
    /\ call.op = "remove_star"
    /\ call.raised = "none"
    /\ call.taxon_id \in Range(taxon_history_ids)
    /\ frequencyRank(call.taxon_id) >= 1
    /\ starred_taxa_list # <<>>

(***************************************************************************)
(* C14: reloading keeps the order of the starred list: when the starred    *)
(* ids of a controller that shows them most-recently-starred first are     *)
(* stored and loaded by a new controller, the new controller shows them in *)
(* the same order.                                                         *)
(***************************************************************************)
C14_ReloadKeepsStarredOrder ==
    [][(call'.op = "init_stored_taxa" /\ orderedStarred = Reverse(starred_taxa_ids)) =>
          orderedStarred' = orderedStarred]_vars

(***************************************************************************)
(* C11: from a profile store with at most one default profile, after any   *)
(* set_to_default, unset_default and remove_profile calls at most one      *)
(* profile has default True; right after set_to_default(p) for a profile p *)
(* that exists, p has default True and every other profile default False.  *)
(***************************************************************************)
IsProfileCall(op, profile) == profile_call'.op = op /\ profile_call'.profile = profile

C11_AtMostOneDefault ==
    /\ AtMostOneDefault(tessprofiles)
    /\ (profile_call.op = "set_to_default" /\ profile_call.profile \in DictKeys(tessprofiles)) =>
          \A i \in DOMAIN tessprofiles :
              /\ "default" \in DOMAIN tessprofiles[i].v
              /\ tessprofiles[i].v.default = (tessprofiles[i].k = profile_call.profile)

(* a profile is made the default among several *)
C11_Witness ==
    /\ profile_call.op = "set_to_default"
    /\ profile_call.profile \in DictKeys(tessprofiles)
    /\ Len(tessprofiles) >= 2

(***************************************************************************)
(* C12: remove_profile(p) for a profile p that exists deletes exactly p    *)
(* and leaves every other profile's name and settings unchanged; after     *)
(* each completed set_to_default, unset_default or remove_profile the      *)
(* profile file holds the in-memory profiles; remove_profile or            *)
(* unset_default for a name that is not there fails before anything is     *)
(* written, leaving profiles and file unchanged.                           *)
(***************************************************************************)
C12_RemoveAndWrite ==
    [][\A p \in ProfileNames :
          /\ (IsProfileCall("remove_profile", p) /\ p \in DictKeys(tessprofiles)) =>
                /\ profile_call'.raised = "none"
                /\ DictKeys(tessprofiles') = DictKeys(tessprofiles) \ {p}
                /\ Len(tessprofiles') = Len(tessprofiles) - 1
                /\ \A q \in DictKeys(tessprofiles) \ {p} :
                      DictGet(tessprofiles', q, <<>>) = DictGet(tessprofiles, q, <<>>)
          /\ profile_call'.raised = "none" => tessprofiles_file' = tessprofiles'
          /\ ((IsProfileCall("remove_profile", p) \/ IsProfileCall("unset_default", p))
                 /\ p \notin DictKeys(tessprofiles)) =>
                /\ profile_call'.raised = "KeyError"
                /\ UNCHANGED <<tessprofiles, tessprofiles_file>>]_vars

(* a profile is removed and others stay *)
C12_Witness ==
    /\ profile_call.op = "remove_profile"
    /\ profile_call.raised = "none"
    /\ Len(tessprofiles) >= 1
    /\ tessprofiles_file = tessprofiles

====
